---------------------------- MODULE Spec2Model ----------------------------
(***************************************************************************)
(* A model of the Doxie scanner client (src/grab.py, class DoxieScanner)   *)
(* and of the scan transfer workflow that drives it                        *)
(* (src/doxieapi/__main__.py, main).                                       *)
(*                                                                         *)
(* Strings that the code takes apart (scan paths) are sequences of         *)
(* one-character strings.  A URL is the 6-tuple urlparse() gives:          *)
(* <<scheme, netloc, path, params, query, fragment>>.                      *)
(* An HTTP response is a record [conn, status, body]; conn = FALSE stands  *)
(* for requests.get() raising a connection error.  A JSON body is the      *)
(* one-element sequence <<value>>, a body that is not JSON is <<>>, and    *)
(* the body of a scan is its bytes.                                        *)
(***************************************************************************)
EXTENDS Naturals, Sequences, FiniteSets

VARIABLES
    replies,      \* the SSDP replies of this discover() call: a sequence of locations
    hello,        \* device -> the attributes its hello.json reports
    store,        \* the INI file: MAC -> password, or NoEntry
    doxies,       \* the DoxieScanner instances constructed so far
    pc,           \* the program's position
    ri,           \* discover(): index of the reply being handled
    si,           \* main(): index of the scanner being handled
    devRecords,   \* device -> the scan records it lists, oldest first
    devFiles,     \* device -> the scan names whose backing file exists
    scanned,      \* device -> every scan name that had a backing file in this run
    disk,         \* the local disk: path -> content, for the files that exist
    listing,      \* download_scans: the records being iterated over
    di,           \* download_scans: index of the record being downloaded
    output_files, \* download_scans: the paths downloaded so far
    mi,           \* main(): index of the downloaded scan being sent
    delNames,     \* main(): the names of the second listing, to be deleted
    handoffs,     \* what send_mail has accepted: [si, path, content]
    log,          \* every request and local step so far, in order
    outcome,      \* what main() printed at the end of each scanner's cycle
    error,        \* the exception main() caught in each scanner's cycle, or None
    raised        \* the exception that escaped main(), or None

vars == <<replies, hello, store, doxies, pc, ri, si, devRecords, devFiles,
          scanned, disk, listing, di, output_files, mi, delNames, handoffs,
          log, outcome, error, raised>>

----------------------------------------------------------------------------
(* Bounds *)

\* the most scan records a device ever holds
MaxScans == 3
\* the most SSDP replies one discover() call collects
MaxReplies == 2
\* the most property reads made on one client
MaxOps == 3

----------------------------------------------------------------------------
(* Values *)

None == "None"
NoEntry == "NoEntry"
NoBody == <<>>

\* requests.codes.ok
codes_ok == 200

username == "doxie"

Max(S) == CHOOSE m \in S : \A k \in S : k <= m

\* str.startswith
StartsWith(s, p) == Len(s) >= Len(p) /\ SubSeq(s, 1, Len(p)) = p

\* os.path.basename: what follows the last "/"
basename(path) ==
    LET slashes == {i \in 1..Len(path) : path[i] = "/"}
    IN  IF slashes = {} THEN path
        ELSE SubSeq(path, Max(slashes) + 1, Len(path))

\* os.path.join(output_dir, name): an absolute name replaces the directory,
\* and a "/" is put between the two unless the directory is empty or ends
\* with one
join(output_dir, name) ==
    IF name # <<>> /\ name[1] = "/" THEN name
    ELSE IF output_dir = <<>> \/ output_dir[Len(output_dir)] = "/"
    THEN output_dir \o name
    ELSE output_dir \o <<"/">> \o name

ScansPrefix == <<"/", "s", "c", "a", "n", "s">>

\* download_scan, lines 164-165: the path requested for a scan
scan_path(path) ==
    IF ~StartsWith(path, ScansPrefix) THEN ScansPrefix \o path ELSE path

\* download_scan, line 168
output_path(path, output_dir) == join(output_dir, basename(scan_path(path)))

\* _api_url: urljoin(self.url, path) for a path that starts with one "/"
_api_url(url, path) == <<url[1], url[2], path, "", "", "">>

\* discover(), lines 51-52: the base address of a reply's location
base_url(location) == <<location[1], location[2], "/", "", "", "">>

\* _get_url, line 83
NoAuth == <<>>
auth_of(self) ==
    IF self.password # None THEN <<username, self.password>> ELSE NoAuth

\* response.raise_for_status(), as the requests library defines it: it raises
\* for a 4xx or 5xx status and returns for any other
raise_for_status(status) == status >= 400 /\ status < 600

\* _get_url, lines 84-87: "ok" when the response is returned to the caller
_get_url(resp) ==
    IF ~resp.conn THEN "ConnectionError"
    ELSE IF resp.status # codes_ok /\ raise_for_status(resp.status) THEN "HTTPError"
    ELSE "ok"

\* _api_call, lines 72-74, with return_json = True: response.json() raises on
\* a body that is not JSON
json(resp) == resp.body[1]
_api_call(resp) ==
    IF _get_url(resp) # "ok" THEN _get_url(resp)
    ELSE IF resp.body = NoBody THEN "JSONDecodeError"
    ELSE "ok"

----------------------------------------------------------------------------
(* The devices and what they answer *)

Devices == {"192.168.1.10:8080", "192.168.1.11:8080"}

MACOf(d) == IF d = "192.168.1.10:8080" THEN "00:AA" ELSE "00:BB"

\* the password each device was set up with
SecretOf(d) == IF d = "192.168.1.10:8080" THEN "pw10" ELSE "pw11"

Modes == {"Host", "Client"}

\* the attributes a device reports in hello.json; network only in Client mode
HelloOf(d, mode, hasPassword) ==
    IF mode = "Client"
    THEN [model |-> "DX250", name |-> "Doxie_" \o MACOf(d), MAC |-> MACOf(d),
          mode |-> mode, firmwareWiFi |-> "1.29", hasPassword |-> hasPassword,
          network |-> "home"]
    ELSE [model |-> "DX250", name |-> "Doxie_" \o MACOf(d), MAC |-> MACOf(d),
          mode |-> mode, firmwareWiFi |-> "1.29", hasPassword |-> hasPassword]

HelloSet(d) == {HelloOf(d, m, h) : m \in Modes, h \in BOOLEAN}

Ok(body) == [conn |-> TRUE, status |-> codes_ok, body |-> body]
Json(value) == Ok(<<value>>)
Status(s) == [conn |-> TRUE, status |-> s, body |-> NoBody]

\* what may go wrong with any request: no connection, a server error, or an
\* answer that is neither 200 nor an error status
ConnFail == [conn |-> FALSE, status |-> 0, body |-> NoBody]
Glitches == {ConnFail, Status(500), Status(204)}

\* a protected call is rejected unless it carries the device's password
Rejected(d, auth) == hello[d].hasPassword /\ auth # <<username, SecretOf(d)>>

\* the answers a device may give to a protected call whose regular answer is r
Answers(d, auth, r) == (IF Rejected(d, auth) THEN {Status(401)} ELSE {r}) \cup Glitches

\* the answers to a deletion request: 204 when the device accepts it
DeleteAnswers(d, auth) ==
    (IF Rejected(d, auth) THEN {Status(401)} ELSE {Status(204)}) \cup {ConnFail, Status(500)}

FirmwareValues == {"0.26", "0.27"}

\* hello_extra.json: the firmware field may be any JSON value, null included
HelloExtraBodies ==
    {[firmware |-> f, connectedToExternalPower |-> p] :
        f \in FirmwareValues \cup {None}, p \in BOOLEAN}

\* the scan names: two directories, and one base name used in both
AllNames ==
    << <<"/", "D", "/", "a">>, <<"/", "D", "/", "b">>, <<"/", "E", "/", "a">>,
       <<"/", "E", "/", "c">>, <<"/", "E", "/", "d">> >>

ScanNames == {AllNames[i] : i \in 1..(IF MaxScans < Len(AllNames) THEN MaxScans ELSE Len(AllNames))}

\* the bytes of a scan
Data(name) == <<"bytes of">> \o name
OldData == <<"old bytes">>

\* GET /scans/<name>: 200 with the bytes when the backing file exists, else 404
ScanAnswer(d, path) ==
    IF \E n \in devFiles[d] : ScansPrefix \o n = path
    THEN Ok(Data(CHOOSE n \in devFiles[d] : ScansPrefix \o n = path))
    ELSE Status(404)

\* GET /scans.json
ListAnswer(d) == Json([i \in 1..Len(devRecords[d]) |-> [name |-> devRecords[d][i]]])

cwd == <<"/", "w">>

----------------------------------------------------------------------------
(* The client object *)

\* the class attributes, lines 13-26, and __init__, line 29
NewScanner(url) ==
    [url |-> url, password |-> None, model |-> None, name |-> None,
     mac |-> None, mode |-> None, network |-> None, firmware_wifi |-> None,
     _firmware |-> None]

\* _load_password with the KeyError swallowed: the password stays None
load_password_swallows(self, ini) ==
    IF ini[self.mac] # NoEntry
    THEN [self |-> [self EXCEPT !.password = ini[self.mac]], exc |-> None]
    ELSE [self |-> self, exc |-> None]

\* _load_password, lines 112-118: the object and the exception raised, if any
_load_password(self, ini) ==
    IF ini[self.mac] # NoEntry
    THEN [self |-> [self EXCEPT !.password = ini[self.mac]], exc |-> None]
    ELSE [self |-> self, exc |-> "CredentialNotFound"]

\* _load_hello_attributes, lines 96-105, given the answer to hello.json
_load_hello_attributes(self, resp, ini) ==
    IF _api_call(resp) # "ok" THEN [self |-> self, exc |-> _api_call(resp)]
    ELSE LET attributes == json(resp)
             s1 == [self EXCEPT !.model = attributes.model,
                                !.name = attributes.name,
                                !.mac = attributes.MAC,
                                !.mode = attributes.mode,
                                !.firmware_wifi = attributes.firmwareWiFi]
             s2 == IF s1.mode = "Client"
                   THEN [s1 EXCEPT !.network = attributes.network]
                   ELSE s1
         IN  IF attributes.hasPassword = TRUE
             THEN _load_password(s2, ini)
             ELSE [self |-> s2, exc |-> None]

\* __str__, line 41
str(self) == <<"Doxie model", self.model, self.name, "at", self.url>>

\* the firmware property, lines 127-129: a call is sent when the cache is None
firmware_calls(self) == self._firmware = None

\* one entry of the log
Ev(op, i, d, arg, sent, resp, exc, ret) ==
    [op |-> op, si |-> i, dev |-> d, arg |-> arg, sent |-> sent, resp |-> resp,
     exc |-> exc, ret |-> ret]

\* the exception of a call's result, None when it returned
Exc(r) == IF r = "ok" THEN None ELSE r

NoResp == [conn |-> FALSE, status |-> 0, body |-> NoBody]

----------------------------------------------------------------------------
(* discover(), lines 49-54, called from main(), line 11 *)

\* the locations the devices advertise: the first device answers with either of two
Locations ==
    {<<"http", "192.168.1.10:8080", "/desc.xml", "", "", "">>,
     <<"http", "192.168.1.10:8080", "/doxie/document", "", "", "">>,
     <<"http", "192.168.1.11:8080", "/desc.xml", "", "", "">>}

\* the sequences of distinct locations, up to n long
Distinct(n) ==
    UNION {{s \in [1..k -> Locations] : \A i, j \in 1..k : s[i] = s[j] => i = j} : k \in 0..n}

\* lines 50-53: one reply is turned into a DoxieScanner; the hello call is
\* not protected
Construct ==
    /\ pc = "discover"
    /\ ri <= Len(replies)
    /\ LET url == base_url(replies[ri])
           d == url[2]
       IN  \E resp \in {Json(hello[d])} \cup Glitches :
             LET r == _load_hello_attributes(NewScanner(url), resp, store)
             IN  /\ log' = Append(log, Ev("hello", 0, d, _api_url(url, "/hello.json"),
                                          TRUE, resp, r.exc, None))
                 /\ IF r.exc = None
                    THEN /\ doxies' = Append(doxies, r.self)
                         /\ ri' = ri + 1
                         /\ UNCHANGED <<pc, raised>>
                    ELSE /\ pc' = "crashed"
                         /\ raised' = r.exc
                         /\ UNCHANGED <<doxies, ri>>
    /\ UNCHANGED <<replies, hello, store, si, devRecords, devFiles, scanned, disk,
                   listing, di, output_files, mi, delNames, handoffs, outcome, error>>

\* line 54, and main() line 12: the loop over the scanners starts
DiscoverReturn ==
    /\ pc = "discover"
    /\ ri > Len(replies)
    /\ pc' = IF doxies = <<>> THEN "exit" ELSE "scans"
    /\ si' = 1
    /\ UNCHANGED <<replies, hello, store, doxies, ri, devRecords, devFiles, scanned,
                   disk, listing, di, output_files, mi, delNames, handoffs, log,
                   outcome, error, raised>>

----------------------------------------------------------------------------
(* main(), lines 12-41: one scanner's cycle *)

Self == doxies[si]
Dev == doxies[si].url[2]

\* the loop of line 12 moves on to the next scanner
NextScanner ==
    /\ si' = si + 1
    /\ pc' = IF si + 1 <= Len(doxies) THEN "scans" ELSE "exit"

\* lines 40-41: the bare except catches whatever the try block raised
Except(exc) ==
    /\ outcome' = Append(outcome, "Found no new scans")
    /\ error' = Append(error, exc)
    /\ NextScanner

\* line 21 calls download_scans_renamed, whose code is download_scans,
\* lines 175-176: the listing is requested once and iterated over
Scans ==
    /\ pc = "scans"
    /\ \E resp \in Answers(Dev, auth_of(Self), ListAnswer(Dev)) :
         /\ log' = Append(log, Ev("scans", si, Dev, _api_url(Self.url, "/scans.json"),
                                  TRUE, resp, Exc(_api_call(resp)), None))
         /\ IF _api_call(resp) = "ok"
            THEN /\ listing' = json(resp)
                 /\ di' = 1
                 /\ output_files' = <<>>
                 /\ pc' = "download"
                 /\ UNCHANGED <<si, outcome, error>>
            ELSE /\ Except(_api_call(resp))
                 /\ UNCHANGED <<listing, di, output_files>>
    /\ UNCHANGED <<replies, hello, store, doxies, ri, devRecords, devFiles, scanned,
                   disk, mi, delNames, handoffs, raised>>

\* open(output_path, 'wb') and the writes of lines 169-171
write(files, path, content) ==
    [p \in DOMAIN files \cup {path} |-> IF p = path THEN content ELSE files[p]]

\* download_scan, lines 164-172: the disk after the call, given the answer
download_scan(files, path, output_dir, resp) ==
    IF _get_url(resp) # "ok" THEN files
    ELSE write(files, output_path(path, output_dir), resp.body)

\* line 177: one record of the listing is downloaded
Download ==
    /\ pc = "download"
    /\ di <= Len(listing)
    /\ LET name == listing[di].name
       IN  \E resp \in Answers(Dev, auth_of(Self), ScanAnswer(Dev, scan_path(name))) :
             /\ log' = Append(log, Ev("download", si, Dev, name, TRUE, resp,
                                      Exc(_get_url(resp)), output_path(name, cwd)))
             /\ disk' = download_scan(disk, name, cwd, resp)
             /\ IF _get_url(resp) = "ok"
                THEN /\ output_files' = Append(output_files, output_path(name, cwd))
                     /\ di' = di + 1
                     /\ UNCHANGED <<pc, si, outcome, error>>
                ELSE /\ Except(_get_url(resp))
                     /\ UNCHANGED <<output_files, di>>
    /\ UNCHANGED <<replies, hello, store, doxies, ri, devRecords, devFiles, scanned,
                   listing, mi, delNames, handoffs, raised>>

\* line 178: download_scans returns, and the loop of line 21 starts
DownloadsReturn ==
    /\ pc = "download"
    /\ di > Len(listing)
    /\ pc' = "send"
    /\ mi' = 1
    /\ UNCHANGED <<replies, hello, store, doxies, ri, si, devRecords, devFiles,
                   scanned, disk, listing, di, output_files, delNames, handoffs, log,
                   outcome, error, raised>>

\* os.path.split(scan)[1], line 24
tail(scan) == basename(scan)

\* lines 23-35: the scan is handed to send_mail, which reads the file and may fail
SendMail ==
    /\ pc = "send"
    /\ mi <= Len(output_files)
    /\ LET scan == output_files[mi]
       IN  \E accepted \in BOOLEAN :
             IF accepted /\ scan \in DOMAIN disk
             THEN /\ handoffs' = Append(handoffs,
                        [si |-> si, path |-> scan, content |-> disk[scan],
                         subject |-> <<tail(scan), "from", str(Self)>>])
                  /\ log' = Append(log, Ev("send_mail", si, Dev, scan, FALSE, NoResp,
                                           None, None))
                  /\ pc' = "remove"
                  /\ UNCHANGED <<si, outcome, error>>
             ELSE /\ log' = Append(log, Ev("send_mail", si, Dev, scan, FALSE, NoResp,
                                           "SendMailError", None))
                  /\ Except("SendMailError")
                  /\ UNCHANGED handoffs
    /\ UNCHANGED <<replies, hello, store, doxies, ri, devRecords, devFiles, scanned,
                   disk, listing, di, output_files, mi, delNames, raised>>

\* line 36: os.remove raises when the file is not there
Remove ==
    /\ pc = "remove"
    /\ LET scan == output_files[mi]
       IN  IF scan \in DOMAIN disk
           THEN /\ disk' = [p \in DOMAIN disk \ {scan} |-> disk[p]]
                /\ log' = Append(log, Ev("remove", si, Dev, scan, FALSE, NoResp,
                                         None, None))
                /\ mi' = mi + 1
                /\ pc' = "send"
                /\ UNCHANGED <<si, outcome, error>>
           ELSE /\ log' = Append(log, Ev("remove", si, Dev, scan, FALSE, NoResp,
                                         "FileNotFoundError", None))
                /\ Except("FileNotFoundError")
                /\ UNCHANGED <<disk, mi>>
    /\ UNCHANGED <<replies, hello, store, doxies, ri, devRecords, devFiles, scanned,
                   listing, di, output_files, delNames, handoffs, raised>>

\* line 38, the argument: scanner.scans asks the device for its listing again
Relist ==
    /\ pc = "send"
    /\ mi > Len(output_files)
    /\ \E resp \in Answers(Dev, auth_of(Self), ListAnswer(Dev)) :
         /\ log' = Append(log, Ev("scans", si, Dev, _api_url(Self.url, "/scans.json"),
                                  TRUE, resp, Exc(_api_call(resp)), None))
         /\ IF _api_call(resp) = "ok"
            THEN /\ delNames' = [i \in 1..Len(json(resp)) |-> json(resp)[i].name]
                 /\ pc' = "delete"
                 /\ UNCHANGED <<si, outcome, error>>
            ELSE /\ Except(_api_call(resp))
                 /\ UNCHANGED delNames
    /\ UNCHANGED <<replies, hello, store, doxies, ri, devRecords, devFiles, scanned,
                   disk, listing, di, output_files, mi, handoffs, raised>>

Range(s) == {s[i] : i \in 1..Len(s)}

Without(s, names) == SelectSeq(s, LAMBDA n : n \notin names)

\* what the device lists after it deleted the scans named: the records named
\* go, except that the most recent of them may stay without its file
AfterDelete(records, names, stale) ==
    LET hit == {i \in 1..Len(records) : records[i] \in names}
    IN  IF stale /\ hit # {}
        THEN SelectSeq(records, LAMBDA n : n \notin names \/ n = records[Max(hit)])
        ELSE Without(records, names)

\* line 38, the call: delete_scans sends one request that names the scans; the
\* device accepts it as a whole, or the call raises
DeleteScans ==
    /\ pc = "delete"
    /\ \E resp \in DeleteAnswers(Dev, auth_of(Self)), stale \in BOOLEAN :
         /\ log' = Append(log, Ev("delete_scans", si, Dev, delNames, TRUE, resp,
                                  IF resp = Status(204) THEN None ELSE "DeleteError",
                                  None))
         /\ IF resp = Status(204)
            THEN /\ devFiles' = [devFiles EXCEPT ![Dev] = @ \ Range(delNames)]
                 /\ devRecords' = [devRecords EXCEPT
                                     ![Dev] = AfterDelete(@, Range(delNames), stale)]
                 /\ outcome' = Append(outcome, "Deleted scans from Doxie")
                 /\ error' = Append(error, None)
                 /\ NextScanner
            ELSE /\ stale = FALSE
                 /\ Except("DeleteError")
                 /\ UNCHANGED <<devFiles, devRecords>>
    /\ UNCHANGED <<replies, hello, store, doxies, ri, scanned, disk, listing, di,
                   output_files, mi, delNames, handoffs, raised>>

\* the device: a page is scanned while the program runs
DeviceAddsScan ==
    /\ pc \in {"scans", "download", "send", "remove", "delete"}
    /\ \E n \in ScanNames \ (scanned[Dev] \cup Range(devRecords[Dev])) :
         /\ devRecords' = [devRecords EXCEPT ![Dev] = Append(@, n)]
         /\ devFiles' = [devFiles EXCEPT ![Dev] = @ \cup {n}]
         /\ scanned' = [scanned EXCEPT ![Dev] = @ \cup {n}]
    /\ UNCHANGED <<replies, hello, store, doxies, pc, ri, si, disk, listing, di,
                   output_files, mi, delNames, handoffs, log, outcome, error, raised>>

----------------------------------------------------------------------------
(* The properties of one client that read hello_extra.json *)

HelloExtraAnswers(self) ==
    UNION {Answers(self.url[2], auth_of(self), Json(b)) : b \in HelloExtraBodies}

\* the firmware property, lines 127-129
FirmwareRead ==
    /\ pc = "client"
    /\ Len(log) < MaxOps
    /\ LET self == doxies[1]
           d == self.url[2]
       IN  IF firmware_calls(self)
           THEN \E resp \in HelloExtraAnswers(self) :
                  IF _api_call(resp) = "ok"
                  THEN /\ doxies' = [doxies EXCEPT ![1]._firmware = json(resp).firmware]
                       /\ log' = Append(log, Ev("firmware", 1, d, None, TRUE, resp,
                                                None, json(resp).firmware))
                  ELSE /\ log' = Append(log, Ev("firmware", 1, d, None, TRUE, resp,
                                                _api_call(resp), None))
                       /\ UNCHANGED doxies
           ELSE /\ log' = Append(log, Ev("firmware", 1, d, None, FALSE, NoResp,
                                         None, self._firmware))
                /\ UNCHANGED doxies
    /\ UNCHANGED <<replies, hello, store, pc, ri, si, devRecords, devFiles, scanned,
                   disk, listing, di, output_files, mi, delNames, handoffs, outcome,
                   error, raised>>

\* the connected_to_external_power property, lines 139-143
PowerRead ==
    /\ pc = "client"
    /\ Len(log) < MaxOps
    /\ LET self == doxies[1]
           d == self.url[2]
       IN  \E resp \in HelloExtraAnswers(self) :
             IF _api_call(resp) = "ok"
             THEN /\ doxies' = [doxies EXCEPT ![1]._firmware = json(resp).firmware]
                  /\ log' = Append(log, Ev("connected_to_external_power", 1, d, None,
                                           TRUE, resp, None,
                                           json(resp).connectedToExternalPower))
             ELSE /\ log' = Append(log, Ev("connected_to_external_power", 1, d, None,
                                           TRUE, resp, Exc(_api_call(resp)), None))
                  /\ UNCHANGED doxies
    /\ UNCHANGED <<replies, hello, store, pc, ri, si, devRecords, devFiles, scanned,
                   disk, listing, di, output_files, mi, delNames, handoffs, outcome,
                   error, raised>>

----------------------------------------------------------------------------
(* Initial states and specifications *)

D1 == "192.168.1.10:8080"

\* the INI files: no entry for a MAC, the device's password, or another one
Stores == [{MACOf(d) : d \in Devices} -> {NoEntry, "pw10", "pw11"}]

\* the listings of up to n scans, oldest first: the names are handed out in
\* the order of AllNames
Listings(n) ==
    {SelectSeq(SubSeq(AllNames, 1, Cardinality(ScanNames)), LAMBDA x : x \in S) :
        S \in {T \in SUBSET ScanNames : Cardinality(T) <= n}}

\* what no step has touched yet
Fresh ==
    /\ listing = <<>>
    /\ di = 1
    /\ output_files = <<>>
    /\ mi = 1
    /\ delNames = <<>>
    /\ handoffs = <<>>
    /\ log = <<>>
    /\ outcome = <<>>
    /\ error = <<>>
    /\ raised = None

\* main() is entered: every device holds one scan
Init ==
    /\ replies \in Distinct(MaxReplies)
    /\ hello \in {h \in [Devices -> UNION {HelloSet(d) : d \in Devices}] :
                    /\ \A d \in Devices : h[d] \in HelloSet(d)
                    /\ h["192.168.1.11:8080"].mode = "Host"}
    /\ store \in {st \in Stores : \A d \in Devices : st[MACOf(d)] \in {NoEntry, SecretOf(d)}}
    /\ doxies = <<>>
    /\ pc = "discover"
    /\ ri = 1
    /\ si = 0
    /\ devRecords = [d \in Devices |-> <<AllNames[1]>>]
    /\ devFiles = [d \in Devices |-> Range(devRecords[d])]
    /\ scanned = devFiles
    /\ disk = <<>>
    /\ Fresh

\* one client was discovered and constructed; its device holds any listing,
\* and any of the records may have lost its backing file
InitCycle ==
    /\ replies = <<<<"http", D1, "/desc.xml", "", "", "">>>>
    /\ hello \in {h \in [Devices -> UNION {HelloSet(d) : d \in Devices}] :
                    /\ \A d \in Devices : h[d] \in HelloSet(d)
                    /\ \A d \in Devices : h[d].mode = "Host"
                    /\ ~h["192.168.1.11:8080"].hasPassword}
    /\ store \in {st \in Stores : st["00:BB"] = NoEntry}
    /\ LET r == _load_hello_attributes(NewScanner(base_url(replies[1])),
                                       Json(hello[D1]), store)
       IN  /\ r.exc = None
           /\ doxies = <<r.self>>
    /\ hello[D1].hasPassword \/ store["00:AA"] = NoEntry
    /\ pc = "scans"
    /\ ri = 2
    /\ si = 1
    /\ \E recs \in Listings(MaxScans) :
         /\ devRecords = [d \in Devices |-> IF d = D1 THEN recs ELSE <<>>]
         /\ \E files \in SUBSET Range(recs) :
              devFiles = [d \in Devices |-> IF d = D1 THEN files ELSE {}]
         /\ scanned = devFiles
    /\ disk \in {<<>>, write(<<>>, join(cwd, <<"a">>), OldData)}
    /\ Fresh

\* one client was constructed, and its properties are read
InitClient ==
    /\ replies = <<<<"http", D1, "/desc.xml", "", "", "">>>>
    /\ hello \in {h \in [Devices -> UNION {HelloSet(d) : d \in Devices}] :
                    /\ \A d \in Devices : h[d] \in HelloSet(d)
                    /\ \A d \in Devices : h[d].mode = "Host"
                    /\ ~h["192.168.1.11:8080"].hasPassword}
    /\ store \in {st \in Stores : st["00:BB"] = NoEntry /\ st["00:AA"] \in {NoEntry, "pw10"}}
    /\ LET r == _load_hello_attributes(NewScanner(base_url(replies[1])),
                                       Json(hello[D1]), store)
       IN  /\ r.exc = None
           /\ doxies = <<r.self>>
    /\ hello[D1].hasPassword \/ store["00:AA"] = NoEntry
    /\ pc = "client"
    /\ ri = 2
    /\ si = 1
    /\ devRecords = [d \in Devices |-> <<>>]
    /\ devFiles = [d \in Devices |-> {}]
    /\ scanned = [d \in Devices |-> {}]
    /\ disk = <<>>
    /\ Fresh

Next ==
    \/ Construct
    \/ DiscoverReturn
    \/ Scans
    \/ Download
    \/ DownloadsReturn
    \/ SendMail
    \/ Remove
    \/ Relist
    \/ DeleteScans

Cycle ==
    \/ Scans
    \/ Download
    \/ DownloadsReturn
    \/ SendMail
    \/ Remove
    \/ Relist
    \/ DeleteScans
    \/ DeviceAddsScan

NextClient ==
    \/ FirmwareRead
    \/ PowerRead

\* main(), from discovery on, while no device scans a page
Spec == Init /\ [][Next]_vars

\* one scanner's cycle
SpecCycle == InitCycle /\ [][Cycle]_vars

\* the cached properties of one client
SpecClient == InitClient /\ [][NextClient]_vars

----------------------------------------------------------------------------
(* What the log tells about one scanner's cycle *)

\* the entries of scanner i's cycle
CycleLog(i) == SelectSeq(log, LAMBDA e : e.si = i)

OfOp(entries, op) == SelectSeq(entries, LAMBDA e : e.op = op)

Cycles == 1..Len(outcome)

\* the names of the listing that download_scans iterated over in cycle i
Listed(i) ==
    LET first == OfOp(CycleLog(i), "scans")[1]
    IN  [k \in 1..Len(json(first.resp)) |-> json(first.resp)[k].name]

HasListing(i) ==
    /\ OfOp(CycleLog(i), "scans") # <<>>
    /\ OfOp(CycleLog(i), "scans")[1].exc = None

\* the device answered a download with the status of a scan that is not there
Unavailable(e) == e.op = "download" /\ e.resp.conn /\ e.resp.status = 404

\* the step went through on the device's regular answer
Regular(e) ==
    /\ e.exc = None
    /\ (e.sent /\ e.op # "delete_scans") => e.resp.status = codes_ok

\* in cycle i the listing was returned, and nothing failed but downloads of
\* records whose backing file is absent
OnlyUnavailable(i) ==
    /\ HasListing(i)
    /\ \A k \in 1..Len(CycleLog(i)) : Regular(CycleLog(i)[k]) \/ Unavailable(CycleLog(i)[k])

\* send_mail accepted the file at this path in cycle i
HandedOff(i, path) == \E k \in 1..Len(handoffs) : handoffs[k].si = i /\ handoffs[k].path = path

\* the bytes of scan n were handed to send_mail
Delivered(n) == \E k \in 1..Len(handoffs) : handoffs[k].content = Data(n)

----------------------------------------------------------------------------
(* The claims about one scanner's cycle *)

\* C1: a cycle in which nothing fails but the downloads of records whose
\* backing file is absent ends having issued exactly one delete_scans call,
\* and that call names every record of the listing.
C1_OneDeletionNamesAll ==
    \A i \in Cycles :
        OnlyUnavailable(i) =>
            LET dels == OfOp(CycleLog(i), "delete_scans")
            IN  /\ Len(dels) = 1
                /\ Range(Listed(i)) \subseteq Range(dels[1].arg)

\* C2: when a download fails because the record's file is not there, only that
\* record is skipped: every record of the listing is attempted, in listing
\* order, and every record that was downloaded is handed to send_mail.
C2_SkipsOnlyMissing ==
    \A i \in Cycles :
        OnlyUnavailable(i) =>
            LET downs == OfOp(CycleLog(i), "download")
            IN  /\ [k \in 1..Len(downs) |-> downs[k].arg] = Listed(i)
                /\ \A k \in 1..Len(downs) :
                     downs[k].exc = None => HandedOff(i, downs[k].ret)

\* C3: a local copy is removed only after send_mail accepted it, the device
\* is asked to delete a scan only after that scan was handed off, and so no
\* scan that was never handed off is missing from both the device and the
\* local disk.
C3_HandoffBeforeCleanup ==
    /\ \A k \in 1..Len(log) :
         (log[k].op = "remove" /\ log[k].exc = None) =>
             \E j \in 1..(k - 1) :
                 /\ log[j].op = "send_mail"
                 /\ log[j].exc = None
                 /\ log[j].si = log[k].si
                 /\ log[j].arg = log[k].arg
    /\ \A d \in Devices : \A n \in scanned[d] :
         \/ n \in devFiles[d]
         \/ output_path(n, cwd) \in DOMAIN disk /\ disk[output_path(n, cwd)] = Data(n)
         \/ Delivered(n)

\* C4: the names passed to delete_scans are exactly the names of the listing
\* taken at the start of the cycle, so a scan the device adds later is not
\* named in this cycle's deletion request.
C4_DeletionScopedToListing ==
    \A i \in Cycles :
        LET dels == OfOp(CycleLog(i), "delete_scans")
        IN  \A k \in 1..Len(dels) : HasListing(i) /\ dels[k].arg = Listed(i)

\* C8: the only failure a cycle swallows is the download of a record whose
\* file is not there; a cycle ended by any other failure is not reported as
\* "Found no new scans".
C8_OtherFailuresPropagate ==
    \A i \in Cycles :
        (error[i] # None /\ ~Unavailable(CycleLog(i)[Len(CycleLog(i))])) =>
            outcome[i] # "Found no new scans"

\* C10: a download whose request did not return status 200 leaves the local
\* disk as it was; the destination is modified only by a call whose request
\* returned status 200.
C10_OnlyStatus200Writes ==
    [][(/\ Len(log') = Len(log) + 1
        /\ log'[Len(log')].op = "download"
        /\ (~log'[Len(log')].resp.conn \/ log'[Len(log')].resp.status # codes_ok))
       => disk' = disk]_vars

----------------------------------------------------------------------------
(* The claims about the cached properties of one client *)

Sent == SelectSeq(log, LAMBDA e : e.sent)

\* every call that was sent came back with the attributes
AllAnswered == \A k \in 1..Len(log) : log[k].sent => log[k].exc = None

\* C5: N >= 1 reads of the firmware property, and nothing else, send exactly
\* one hello_extra call, on the first read, whatever firmware value the
\* device reports.
C5_OneCallForNReads ==
    (/\ Len(log) >= 1
     /\ AllAnswered
     /\ \A k \in 1..Len(log) : log[k].op = "firmware")
    => (Len(Sent) = 1 /\ log[1].sent)

\* C6: every read of connected_to_external_power sends one hello_extra call
\* and stores the firmware of its answer, so the calls sent number the reads of
\* connected_to_external_power, plus one when firmware was read before any
\* cache fill; the cache holds the firmware of the latest answer.
C6_CallCount ==
    AllAnswered =>
        /\ \A k \in 1..Len(log) : log[k].op = "connected_to_external_power" => log[k].sent
        /\ Len(Sent) = Len(OfOp(log, "connected_to_external_power"))
                       + (IF log # <<>> /\ log[1].op = "firmware" THEN 1 ELSE 0)
        /\ Sent # <<>> => doxies[1]._firmware = json(Sent[Len(Sent)].resp).firmware

----------------------------------------------------------------------------
(* The claims about discovery and construction *)

\* the construction at log entry k met a device that asks for a password the
\* INI file does not hold
NoCredential(k) ==
    /\ log[k].op = "hello"
    /\ _api_call(log[k].resp) = "ok"
    /\ json(log[k].resp).hasPassword
    /\ store[json(log[k].resp).MAC] = NoEntry

\* C7: constructing a client for a device that asks for a password, with no
\* entry for its MAC in the INI file, fails with the credential error, yields
\* no client, and sends that device no request but the hello call.
C7_NoCredentialNoScanRequest ==
    \A k \in 1..Len(log) :
        NoCredential(k) =>
            /\ log[k].exc = "CredentialNotFound"
            /\ raised = "CredentialNotFound"
            /\ \A c \in Range(doxies) : c.url[2] # log[k].dev
            /\ \A j \in 1..Len(log) :
                 (log[j].dev = log[k].dev /\ log[j].sent) => (j = k /\ log[j].op = "hello")

\* a construction failed for want of a credential
C7_Witness ==
    /\ \E k \in 1..Len(log) : NoCredential(k)
    /\ pc = "crashed"

\* C9: discover() returns one entry per distinct responding device, each at
\* the device's base address; with no reply it returns the empty list and
\* raises nothing.
C9_OnePerDevice ==
    pc \notin {"discover", "crashed"} =>
        /\ Len(doxies) = Cardinality({replies[k][2] : k \in 1..Len(replies)})
        /\ \A k \in 1..Len(doxies) : doxies[k].url = <<"http", doxies[k].url[2], "/", "", "", "">>
        /\ replies = <<>> => (doxies = <<>> /\ raised = None)

=============================================================================
